---- MODULE Spec2Model ----
(***************************************************************************)
(* Model of contextcond.Cond (src/cond.go, lines 140-252): a condition     *)
(* variable whose WaitContext can be aborted by a context.  The internal   *)
(* mutex mtx guards ch and waiters; ch is a channel with a one-slot buffer *)
(* that Signal fills without blocking and that Broadcast closes and        *)
(* replaces.  Receives on a captured channel happen outside mtx.           *)
(*                                                                         *)
(* Every critical section is two steps: the Lock, and the body together    *)
(* with the Unlock (ch and waiters are only touched under mtx, so no other *)
(* goroutine can observe the body half done).                              *)
(*                                                                         *)
(* Further down: the copy guard that every operation runs first (CopySpec) *)
(* and the earlier, delegating variant of the file's lines 1-138           *)
(* (DelegSpec).                                                            *)
(***************************************************************************)
EXTENDS Naturals, Integers, Sequences, FiniteSets, TLC

VARIABLES
    L,          \* c.L: holder of the external lock (NoOne when free)
    mtx,        \* c.mtx: holder of the internal mutex (NoOne when free)
    ch,         \* c.ch: index into chans of the current channel, Nil if nil
    waiters,    \* c.waiters
    chans,      \* heap of channels made so far: [buf, closed] each
    pc,         \* position of every goroutine
    localCh,    \* WaitContext's local variable ch
    err,        \* WaitContext's local variable err / its return value
    ctx,        \* the context handed to WaitContext: "none" before the call,
                \* "background" (never done), "pending" or "cancelled"
    items,      \* the caller's guarded predicate (a counter of items)
    notified,   \* history, kept while w is in unlockL or select: a Signal
                \* or Broadcast locked mtx since w registered
    signals,    \* history: number of Signal calls made so far
    broadcasts, \* history: number of Broadcast calls made so far
    checker,    \* c.checker of every Cond in memory, by the Cond's address
    recv        \* the Cond a goroutine's call is on, while in checker.check()

vars == <<L, mtx, ch, waiters, chans, pc, localCh, err, ctx, items,
          notified, signals, broadcasts, checker, recv>>

NumWaiters == 2
MaxOps == 2

ChanCap == 1
NoOne == 0
Nil == 0

\* addresses: of the Cond that NewCond returned, and of a byte copy of it
Orig == 1
Dup == 2

\* The goroutines that call Wait / WaitContext (once each, and numbered in
\* the order in which they call), and the caller of Signal and Broadcast.
\* Signal and Broadcast run wholly under mtx, so concurrent callers are
\* serialised by it: one goroutine making up to MaxOps calls, at any
\* moments it likes, produces every order of them.
Waiters == 1..NumWaiters
Waker == NumWaiters + 1
Procs == Waiters \cup {Waker}

NewChan == [buf |-> 0, closed |-> FALSE]

\* a receive on channel c can proceed: a buffered token or a closed channel
CanRecv(c) == c # Nil /\ (chans[c].buf > 0 \/ chans[c].closed)

\* the channels after one receive on c (a closed, empty channel yields zero values)
Recv(c) == IF chans[c].buf > 0 THEN [chans EXCEPT ![c].buf = @ - 1] ELSE chans

\* a send on channel c can proceed without blocking
CanSend(c) == c # Nil /\ ~chans[c].closed /\ chans[c].buf < ChanCap

\* a panic of any goroutine ends the program: nobody takes another step
Panic == [p \in Procs |-> "panic"]
Panicked == pc[Waker] = "panic"

\* w has incremented waiters and not yet decremented it
Registered(w) == pc[w] \in {"unlockL", "select", "relock", "lower"}

\* w is (or is about to be) parked in the select of WaitContext
Blocked(w) == pc[w] \in {"unlockL", "select"}

\* a fresh Cond (NewCond: every field but L is zero), nobody inside a call
Init ==
    /\ L = NoOne
    /\ mtx = NoOne
    /\ ch = Nil
    /\ waiters = 0
    /\ chans = << >>
    /\ pc = [p \in Procs |-> "idle"]
    /\ localCh = [w \in Waiters |-> Nil]
    /\ err = [w \in Waiters |-> "unset"]
    /\ ctx = [w \in Waiters |-> "none"]
    /\ items = 0
    /\ notified = [w \in Waiters |-> FALSE]
    /\ signals = 0
    /\ broadcasts = 0
    /\ checker = (Orig :> 0)
    /\ recv = [p \in Procs |-> Nil]

(***************************************************************************)
(* WaitContext                                                             *)
(***************************************************************************)

\* c.mtx.Lock() on entry
WaitLock(w) ==
    /\ pc[w] = "call"
    /\ mtx = NoOne
    /\ mtx' = w
    /\ pc' = [pc EXCEPT ![w] = "register"]
    /\ UNCHANGED <<L, ch, waiters, chans, localCh, err, ctx, items, notified, signals, broadcasts, checker, recv>>

\* MUTANT: waiters is a flag, not a count: it is raised only from 0
WaitRegister_Flag(w) ==
    /\ pc[w] = "register"
    /\ IF ch = Nil
         THEN /\ chans' = Append(chans, NewChan)
              /\ ch' = Len(chans) + 1
         ELSE UNCHANGED <<chans, ch>>
    /\ localCh' = [localCh EXCEPT ![w] = ch']
    /\ waiters' = IF waiters = 0 THEN 1 ELSE waiters
    /\ mtx' = NoOne
    /\ notified' = [notified EXCEPT ![w] = FALSE]
    /\ pc' = [pc EXCEPT ![w] = "unlockL"]
    /\ UNCHANGED <<L, err, ctx, items, signals, broadcasts, checker, recv>>

\* lazily make the channel, capture it, waiters++, c.mtx.Unlock()
WaitRegister(w) ==
    /\ pc[w] = "register"
    /\ IF ch = Nil
         THEN /\ chans' = Append(chans, NewChan)
              /\ ch' = Len(chans) + 1
         ELSE UNCHANGED <<chans, ch>>
    /\ localCh' = [localCh EXCEPT ![w] = ch']
    /\ waiters' = waiters + 1
    /\ mtx' = NoOne
    /\ notified' = [notified EXCEPT ![w] = FALSE]
    /\ pc' = [pc EXCEPT ![w] = "unlockL"]
    /\ UNCHANGED <<L, err, ctx, items, signals, broadcasts, checker, recv>>

\* c.L.Unlock()
WaitUnlockL(w) ==
    /\ pc[w] = "unlockL"
    /\ L' = NoOne
    /\ pc' = [pc EXCEPT ![w] = "select"]
    /\ UNCHANGED <<mtx, ch, waiters, chans, localCh, err, ctx, items, notified, signals, broadcasts, checker, recv>>

\* select: case <-ch (the local ch is dead from here on)
WaitSelectCh(w) ==
    /\ pc[w] = "select"
    /\ CanRecv(localCh[w])
    /\ chans' = Recv(localCh[w])
    /\ err' = [err EXCEPT ![w] = "nil"]
    /\ localCh' = [localCh EXCEPT ![w] = Nil]
    /\ notified' = [notified EXCEPT ![w] = FALSE]
    /\ pc' = [pc EXCEPT ![w] = "relock"]
    /\ UNCHANGED <<L, mtx, ch, waiters, ctx, items, signals, broadcasts, checker, recv>>

\* select: case <-ctx.Done()
WaitSelectDone(w) ==
    /\ pc[w] = "select"
    /\ ctx[w] = "cancelled"
    /\ err' = [err EXCEPT ![w] = "ctx"]
    /\ localCh' = [localCh EXCEPT ![w] = Nil]
    /\ notified' = [notified EXCEPT ![w] = FALSE]
    /\ pc' = [pc EXCEPT ![w] = "relock"]
    /\ UNCHANGED <<L, mtx, ch, waiters, chans, ctx, items, signals, broadcasts, checker, recv>>

\* c.mtx.Lock() after the select
WaitRelock(w) ==
    /\ pc[w] = "relock"
    /\ mtx = NoOne
    /\ mtx' = w
    /\ pc' = [pc EXCEPT ![w] = "lower"]
    /\ UNCHANGED <<L, ch, waiters, chans, localCh, err, ctx, items, notified, signals, broadcasts, checker, recv>>

\* MUTANT: every leaving waiter drains c.ch, not only the last one
WaitLower_AlwaysDrain(w) ==
    /\ pc[w] = "lower"
    /\ waiters' = waiters - 1
    /\ IF CanRecv(ch)
         THEN chans' = Recv(ch)
         ELSE UNCHANGED chans
    /\ mtx' = NoOne
    /\ pc' = [pc EXCEPT ![w] = "lockL"]
    /\ UNCHANGED <<L, ch, localCh, err, ctx, items, notified, signals, broadcasts, checker, recv>>

\* MUTANT: a cancelled call leaves without lowering waiters
WaitLower_CancelKeepsCount(w) ==
    /\ pc[w] = "lower"
    /\ waiters' = IF err[w] = "ctx" THEN waiters ELSE waiters - 1
    /\ IF waiters' = 0 /\ CanRecv(ch)
         THEN chans' = Recv(ch)
         ELSE UNCHANGED chans
    /\ mtx' = NoOne
    /\ pc' = [pc EXCEPT ![w] = "lockL"]
    /\ UNCHANGED <<L, ch, localCh, err, ctx, items, notified, signals, broadcasts, checker, recv>>

\* MUTANT: the last waiter leaves without draining c.ch
WaitLower_NoDrain(w) ==
    /\ pc[w] = "lower"
    /\ waiters' = waiters - 1
    /\ mtx' = NoOne
    /\ pc' = [pc EXCEPT ![w] = "lockL"]
    /\ UNCHANGED <<L, ch, chans, localCh, err, ctx, items, notified, signals, broadcasts, checker, recv>>

\* waiters--, the last waiter drains c.ch without blocking, c.mtx.Unlock()
WaitLower(w) ==
    /\ pc[w] = "lower"
    /\ waiters' = waiters - 1
    /\ IF waiters - 1 = 0 /\ CanRecv(ch)
         THEN chans' = Recv(ch)
         ELSE UNCHANGED chans
    /\ mtx' = NoOne
    /\ pc' = [pc EXCEPT ![w] = "lockL"]
    /\ UNCHANGED <<L, ch, localCh, err, ctx, items, notified, signals, broadcasts, checker, recv>>

\* MUTANT: a cancelled call returns without c.L.Lock()
WaitLockL_CancelSkipsLock(w) ==
    /\ pc[w] = "lockL"
    /\ IF err[w] = "ctx"
         THEN UNCHANGED L
         ELSE L = NoOne /\ L' = w
    /\ pc' = [pc EXCEPT ![w] = "returned"]
    /\ UNCHANGED <<mtx, ch, waiters, chans, localCh, err, ctx, items, notified, signals, broadcasts, checker, recv>>

\* c.L.Lock(); return err
WaitLockL(w) ==
    /\ pc[w] = "lockL"
    /\ L = NoOne
    /\ L' = w
    /\ pc' = [pc EXCEPT ![w] = "returned"]
    /\ UNCHANGED <<mtx, ch, waiters, chans, localCh, err, ctx, items, notified, signals, broadcasts, checker, recv>>

\* the steps of one WaitContext call
WaitContext(w) ==
    \/ WaitLock(w)
    \/ WaitRegister(w)
    \/ WaitUnlockL(w)
    \/ WaitSelectCh(w)
    \/ WaitSelectDone(w)
    \/ WaitRelock(w)
    \/ WaitLower(w)
    \/ WaitLockL(w)

(***************************************************************************)
(* Signal                                                                  *)
(***************************************************************************)

\* the waker calls Signal: c.mtx.Lock()
SignalLock(s) ==
    /\ pc[s] \in {"idle", "locked"}
    /\ signals + broadcasts < MaxOps
    /\ mtx = NoOne
    /\ mtx' = s
    /\ signals' = signals + 1
    /\ notified' = [w \in Waiters |-> notified[w] \/ Blocked(w)]
    /\ pc' = [pc EXCEPT ![s] = "signal"]
    /\ UNCHANGED <<L, ch, waiters, chans, localCh, err, ctx, items, broadcasts, checker, recv>>

\* MUTANT: Signal wakes everybody, as Broadcast does
SignalBody_WakeAll(s) ==
    /\ pc[s] = "signal"
    /\ IF waiters > 0 /\ ch # Nil
         THEN /\ chans' = Append([chans EXCEPT ![ch].closed = TRUE], NewChan)
              /\ ch' = Len(chans) + 1
         ELSE UNCHANGED <<chans, ch>>
    /\ mtx' = NoOne
    /\ pc' = [pc EXCEPT ![s] = "idle"]
    /\ UNCHANGED <<L, waiters, localCh, err, ctx, items, notified, signals, broadcasts, checker, recv>>

\* MUTANT: Signal sends without testing waiters > 0
SignalBody_NoCheck(s) ==
    /\ pc[s] = "signal"
    /\ IF CanSend(ch)
         THEN chans' = [chans EXCEPT ![ch].buf = @ + 1]
         ELSE UNCHANGED chans
    /\ mtx' = NoOne
    /\ pc' = [pc EXCEPT ![s] = "idle"]
    /\ UNCHANGED <<L, ch, waiters, localCh, err, ctx, items, notified, signals, broadcasts, checker, recv>>

\* MUTANT: the channel is unbuffered, so the non-blocking send succeeds only
\* when a waiter is already parked in its select on c.ch
SignalBody_Unbuffered(s) ==
    /\ pc[s] = "signal"
    /\ IF waiters > 0 /\ CanSend(ch) /\ \E w \in Waiters : pc[w] = "select" /\ localCh[w] = ch
         THEN chans' = [chans EXCEPT ![ch].buf = @ + 1]
         ELSE UNCHANGED chans
    /\ mtx' = NoOne
    /\ pc' = [pc EXCEPT ![s] = "idle"]
    /\ UNCHANGED <<L, ch, waiters, localCh, err, ctx, items, notified, signals, broadcasts, checker, recv>>

\* MUTANT: the send blocks until the buffer has room, with mtx held
SignalBody_BlockingSend(s) ==
    /\ pc[s] = "signal"
    /\ waiters > 0 => CanSend(ch)
    /\ IF waiters > 0
         THEN chans' = [chans EXCEPT ![ch].buf = @ + 1]
         ELSE UNCHANGED chans
    /\ mtx' = NoOne
    /\ pc' = [pc EXCEPT ![s] = "idle"]
    /\ UNCHANGED <<L, ch, waiters, localCh, err, ctx, items, notified, signals, broadcasts, checker, recv>>

\* MUTANT: the channel queues every token that Signal sends
SignalBody_Queue(s) ==
    /\ pc[s] = "signal"
    /\ IF waiters > 0 /\ ch # Nil /\ ~chans[ch].closed
         THEN chans' = [chans EXCEPT ![ch].buf = @ + 1]
         ELSE UNCHANGED chans
    /\ mtx' = NoOne
    /\ pc' = [pc EXCEPT ![s] = "idle"]
    /\ UNCHANGED <<L, ch, waiters, localCh, err, ctx, items, notified, signals, broadcasts, checker, recv>>

\* if waiters > 0, a non-blocking send on c.ch (a send on a closed channel
\* panics); c.mtx.Unlock()
SignalBody(s) ==
    /\ pc[s] = "signal"
    /\ IF waiters > 0 /\ ch # Nil /\ chans[ch].closed
         THEN /\ pc' = Panic
              /\ UNCHANGED <<chans, mtx>>
         ELSE /\ IF waiters > 0 /\ CanSend(ch)
                   THEN chans' = [chans EXCEPT ![ch].buf = @ + 1]
                   ELSE UNCHANGED chans
              /\ mtx' = NoOne
              /\ pc' = [pc EXCEPT ![s] = "idle"]
    /\ UNCHANGED <<L, ch, waiters, localCh, err, ctx, items, notified, signals, broadcasts, checker, recv>>

Signal(s) == SignalLock(s) \/ SignalBody(s)

(***************************************************************************)
(* Broadcast                                                               *)
(***************************************************************************)

\* the waker calls Broadcast: c.mtx.Lock()
BroadcastLock(b) ==
    /\ pc[b] = "idle"
    /\ signals + broadcasts < MaxOps
    /\ mtx = NoOne
    /\ mtx' = b
    /\ broadcasts' = broadcasts + 1
    /\ notified' = [w \in Waiters |-> notified[w] \/ Blocked(w)]
    /\ pc' = [pc EXCEPT ![b] = "broadcast"]
    /\ UNCHANGED <<L, ch, waiters, chans, localCh, err, ctx, items, signals, checker, recv>>

\* MUTANT: Broadcast installs a fresh channel without closing the old one
BroadcastBody_NoClose(b) ==
    /\ pc[b] = "broadcast"
    /\ IF waiters > 0
         THEN /\ chans' = Append(chans, NewChan)
              /\ ch' = Len(chans) + 1
         ELSE UNCHANGED <<chans, ch>>
    /\ mtx' = NoOne
    /\ pc' = [pc EXCEPT ![b] = "idle"]
    /\ UNCHANGED <<L, waiters, localCh, err, ctx, items, notified, signals, broadcasts, checker, recv>>

\* MUTANT: Broadcast closes c.ch and leaves the closed channel in place
BroadcastBody_NoReplace(b) ==
    /\ pc[b] = "broadcast"
    /\ IF waiters > 0 /\ (ch = Nil \/ chans[ch].closed)
         THEN /\ pc' = Panic
              /\ UNCHANGED <<chans, mtx>>
         ELSE /\ IF waiters > 0
                   THEN chans' = [chans EXCEPT ![ch].closed = TRUE]
                   ELSE UNCHANGED chans
              /\ mtx' = NoOne
              /\ pc' = [pc EXCEPT ![b] = "idle"]
    /\ UNCHANGED <<L, ch, waiters, localCh, err, ctx, items, notified, signals, broadcasts, checker, recv>>

\* if waiters > 0, close c.ch (closing a nil or closed channel panics) and
\* install a fresh channel; c.mtx.Unlock()
BroadcastBody(b) ==
    /\ pc[b] = "broadcast"
    /\ IF waiters > 0 /\ (ch = Nil \/ chans[ch].closed)
         THEN /\ pc' = Panic
              /\ UNCHANGED <<chans, ch, mtx>>
         ELSE /\ IF waiters > 0
                   THEN /\ chans' = Append([chans EXCEPT ![ch].closed = TRUE], NewChan)
                        /\ ch' = Len(chans) + 1
                   ELSE UNCHANGED <<chans, ch>>
              /\ mtx' = NoOne
              /\ pc' = [pc EXCEPT ![b] = "idle"]
    /\ UNCHANGED <<L, waiters, localCh, err, ctx, items, notified, signals, broadcasts, checker, recv>>

Broadcast(b) == BroadcastLock(b) \/ BroadcastBody(b)

(***************************************************************************)
(* Callers: each waiter goroutine locks c.L, calls WaitContext once and    *)
(* unlocks c.L; signallers and broadcasters call without holding c.L.      *)
(***************************************************************************)

\* The next caller locks c.L and calls Wait (context.Background()) or
\* WaitContext with a context that can still be cancelled or already is.
CallWait(w) ==
    /\ pc[w] = "idle"
    /\ \A v \in Waiters : v < w => pc[v] # "idle"
    /\ L = NoOne
    /\ L' = w
    /\ \E k \in {"background", "pending", "cancelled"} : ctx' = [ctx EXCEPT ![w] = k]
    /\ pc' = [pc EXCEPT ![w] = "call"]
    /\ UNCHANGED <<mtx, ch, waiters, chans, localCh, err, items, notified, signals, broadcasts, checker, recv>>

\* the caller takes the result and unlocks c.L after WaitContext returned
AfterWait(w) ==
    /\ pc[w] = "returned"
    /\ L' = NoOne
    /\ err' = [err EXCEPT ![w] = "unset"]
    /\ pc' = [pc EXCEPT ![w] = "done"]
    /\ UNCHANGED <<mtx, ch, waiters, chans, localCh, ctx, items, notified, signals, broadcasts, checker, recv>>

\* the context given to w's WaitContext is cancelled during the call (the
\* call reads ctx only in its select, so nothing tells an earlier
\* cancellation from one that comes while the call is parked there)
Cancel(w) ==
    /\ ctx[w] = "pending"
    /\ pc[w] = "select"
    /\ ctx' = [ctx EXCEPT ![w] = "cancelled"]
    /\ UNCHANGED <<L, mtx, ch, waiters, chans, pc, localCh, err, items, notified, signals, broadcasts, checker, recv>>

Next ==
    \/ \E w \in Waiters : CallWait(w)
    \/ \E w \in Waiters : WaitLock(w)
    \/ \E w \in Waiters : WaitRegister(w)
    \/ \E w \in Waiters : WaitUnlockL(w)
    \/ \E w \in Waiters : WaitSelectCh(w)
    \/ \E w \in Waiters : WaitSelectDone(w)
    \/ \E w \in Waiters : WaitRelock(w)
    \/ \E w \in Waiters : WaitLower(w)
    \/ \E w \in Waiters : WaitLockL(w)
    \/ \E w \in Waiters : AfterWait(w)
    \/ \E w \in Waiters : Cancel(w)
    \/ SignalLock(Waker)
    \/ SignalBody(Waker)
    \/ BroadcastLock(Waker)
    \/ BroadcastBody(Waker)

Spec == Init /\ [][Next]_vars

\* a step of a call that has started, or a caller releasing c.L after Wait
Progress ==
    \/ \E w \in Waiters : WaitContext(w) \/ AfterWait(w)
    \/ SignalBody(Waker)
    \/ BroadcastBody(Waker)

\* The scheduler does not stop while a started call can take a step.  (This
\* asks less than fairness to every goroutine, which Go's scheduler and
\* sync.Mutex give.)  Whether and when Wait, Signal or Broadcast is called,
\* or a context is cancelled, is up to the caller.
Fairness == WF_vars(Progress)

FairSpec == Spec /\ Fairness

(***************************************************************************)
(* The standard predicate loop.  Consumers run                             *)
(*     c.L.Lock(); for items == 0 { c.Wait() }; items--; c.L.Unlock()      *)
(* and the producer runs, up to MaxOps times,                              *)
(*     c.L.Lock(); items++; c.Signal(); c.L.Unlock()                       *)
(* Producers are serialised by c.L, so one goroutine stands for them all.  *)
(***************************************************************************)

LoopInit ==
    /\ L = NoOne
    /\ mtx = NoOne
    /\ ch = Nil
    /\ waiters = 0
    /\ chans = << >>
    /\ pc = [p \in Procs |-> "idle"]
    /\ localCh = [w \in Waiters |-> Nil]
    /\ err = [w \in Waiters |-> "unset"]
    /\ ctx = [w \in Waiters |-> "none"]
    /\ items = 0
    /\ notified = [w \in Waiters |-> FALSE]
    /\ signals = 0
    /\ broadcasts = 0
    /\ checker = (Orig :> 0)
    /\ recv = [p \in Procs |-> Nil]

\* c.L.Lock() of the next consumer
ConsumerLock(w) ==
    /\ pc[w] = "idle"
    /\ \A v \in Waiters : v < w => pc[v] # "idle"
    /\ L = NoOne
    /\ L' = w
    /\ ctx' = [ctx EXCEPT ![w] = "background"]
    /\ pc' = [pc EXCEPT ![w] = "check"]
    /\ UNCHANGED <<mtx, ch, waiters, chans, localCh, err, items, notified, signals, broadcasts, checker, recv>>

\* the loop test, on entry and after every Wait: consume and unlock, or Wait
ConsumerCheck(w) ==
    /\ pc[w] \in {"check", "returned"}
    /\ IF items > 0
         THEN /\ items' = items - 1
              /\ L' = NoOne
              /\ pc' = [pc EXCEPT ![w] = "done"]
         ELSE /\ pc' = [pc EXCEPT ![w] = "call"]
              /\ UNCHANGED <<items, L>>
    /\ err' = [err EXCEPT ![w] = "unset"]
    /\ UNCHANGED <<mtx, ch, waiters, chans, localCh, ctx, notified, signals, broadcasts, checker, recv>>

\* c.L.Lock(); items++
ProducerLock(p) ==
    /\ pc[p] = "idle"
    /\ L = NoOne
    /\ signals < MaxOps
    /\ L' = p
    /\ items' = items + 1
    /\ pc' = [pc EXCEPT ![p] = "locked"]
    /\ UNCHANGED <<mtx, ch, waiters, chans, localCh, err, ctx, notified, signals, broadcasts, checker, recv>>

\* c.Signal() with c.L held
ProducerSignal(p) ==
    /\ pc[p] = "locked"
    /\ SignalLock(p)

\* c.L.Unlock() after Signal returned
ProducerUnlock(p) ==
    /\ pc[p] = "idle"
    /\ L = p
    /\ L' = NoOne
    /\ UNCHANGED <<mtx, ch, waiters, chans, pc, localCh, err, ctx, items, notified, signals, broadcasts, checker, recv>>

LoopNext ==
    \/ \E w \in Waiters : ConsumerLock(w)
    \/ \E w \in Waiters : ConsumerCheck(w)
    \/ \E w \in Waiters : WaitLock(w)
    \/ \E w \in Waiters : WaitRegister(w)
    \/ \E w \in Waiters : WaitUnlockL(w)
    \/ \E w \in Waiters : WaitSelectCh(w)
    \/ \E w \in Waiters : WaitRelock(w)
    \/ \E w \in Waiters : WaitLower(w)
    \/ \E w \in Waiters : WaitLockL(w)
    \/ ProducerLock(Waker)
    \/ ProducerSignal(Waker)
    \/ SignalBody(Waker)
    \/ ProducerUnlock(Waker)

LoopSpec == LoopInit /\ [][LoopNext]_vars

(***************************************************************************)
(* The copy guard (copyChecker.check, the first statement of every         *)
(* operation).  Any goroutine may call any operation on the Cond at Orig   *)
(* at any time, and the program may once copy that Cond byte by byte to    *)
(* Dup and call operations on the copy.  check() is three steps: a plain   *)
(* load, a compare-and-swap and a second load (a load that races with the  *)
(* compare-and-swap of another goroutine yields the word before or after   *)
(* it, which the interleaving of the steps covers).                        *)
(***************************************************************************)

\* a goroutine has panicked: the program has ended
Aborted == \E p \in Procs : pc[p] = "panic"

\* the Conds in memory
Conds == DOMAIN checker

\* p calls an operation on o: uintptr(*c) != uintptr(unsafe.Pointer(c))
CheckLoad(p) ==
    /\ ~Aborted
    /\ pc[p] = "idle"
    /\ \E o \in Conds :
          /\ recv' = [recv EXCEPT ![p] = o]
          /\ pc' = [pc EXCEPT ![p] = IF checker[o] # o THEN "cas" ELSE "using"]
    /\ UNCHANGED <<L, mtx, ch, waiters, chans, localCh, err, ctx, items, notified, signals, broadcasts, checker>>

\* !atomic.CompareAndSwapUintptr((*uintptr)(c), 0, uintptr(unsafe.Pointer(c)))
CheckCAS(p) ==
    /\ ~Aborted
    /\ pc[p] = "cas"
    /\ IF checker[recv[p]] = 0
         THEN /\ checker' = [checker EXCEPT ![recv[p]] = recv[p]]
              /\ pc' = [pc EXCEPT ![p] = "using"]
         ELSE /\ pc' = [pc EXCEPT ![p] = "reload"]
              /\ UNCHANGED checker
    /\ UNCHANGED <<L, mtx, ch, waiters, chans, localCh, err, ctx, items, notified, signals, broadcasts, recv>>

\* MUTANT: a failed compare-and-swap panics without loading again
CheckReload_NoReload(p) ==
    /\ ~Aborted
    /\ pc[p] = "reload"
    /\ pc' = [pc EXCEPT ![p] = "panic"]
    /\ UNCHANGED <<L, mtx, ch, waiters, chans, localCh, err, ctx, items, notified, signals, broadcasts, checker, recv>>

\* uintptr(*c) != uintptr(unsafe.Pointer(c)): panic("contextcond.Cond is copied")
CheckReload(p) ==
    /\ ~Aborted
    /\ pc[p] = "reload"
    /\ pc' = [pc EXCEPT ![p] = IF checker[recv[p]] # recv[p] THEN "panic" ELSE "using"]
    /\ UNCHANGED <<L, mtx, ch, waiters, chans, localCh, err, ctx, items, notified, signals, broadcasts, checker, recv>>

\* check() returned: the operation runs on the Cond's other fields and returns
OpReturn(p) ==
    /\ ~Aborted
    /\ pc[p] = "using"
    /\ recv' = [recv EXCEPT ![p] = Nil]
    /\ pc' = [pc EXCEPT ![p] = "idle"]
    /\ UNCHANGED <<L, mtx, ch, waiters, chans, localCh, err, ctx, items, notified, signals, broadcasts, checker>>

\* the program copies the Cond at Orig to Dup, guard word included
CopyCond ==
    /\ ~Aborted
    /\ Dup \notin Conds
    /\ checker' = checker @@ (Dup :> checker[Orig])
    /\ UNCHANGED <<L, mtx, ch, waiters, chans, pc, localCh, err, ctx, items, notified, signals, broadcasts, recv>>

CopyNext ==
    \/ \E p \in Procs : CheckLoad(p)
    \/ \E p \in Procs : CheckCAS(p)
    \/ \E p \in Procs : CheckReload(p)
    \/ \E p \in Procs : OpReturn(p)
    \/ CopyCond

CopySpec == Init /\ [][CopyNext]_vars

(***************************************************************************)
(* The earlier, delegating variant (src/cond.go, lines 1-138).  The        *)
(* internal lock is the one-slot channel mtxCh (a send locks, a receive    *)
(* unlocks); ch is unbuffered, so a send of Signal and the receive of a    *)
(* parked waiter are one joint step, and so are a send and a receive on    *)
(* delegateWaiterLowering.  mtx stands for mtxCh: NoOne when it is empty,  *)
(* else the goroutine whose token is in it (a Signal that delivers hands   *)
(* its token to the receiver); a receive on mtxCh asks only for a token.   *)
(* The statements on c.L and the callers are those of the current variant. *)
(***************************************************************************)

\* NewCond: mtxCh, ch and delegateWaiterLowering are made, nobody inside a call
DelegInit ==
    /\ L = NoOne
    /\ mtx = NoOne
    /\ ch = 1
    /\ waiters = 0
    /\ chans = <<NewChan>>
    /\ pc = [p \in Procs |-> "idle"]
    /\ localCh = [w \in Waiters |-> Nil]
    /\ err = [w \in Waiters |-> "unset"]
    /\ ctx = [w \in Waiters |-> "none"]
    /\ items = 0
    /\ notified = [w \in Waiters |-> FALSE]
    /\ signals = 0
    /\ broadcasts = 0
    /\ checker = (Orig :> 0)
    /\ recv = [p \in Procs |-> Nil]

\* c.mtxCh <- struct{}{} on entry
DelegWaitLock(w) ==
    /\ pc[w] = "call"
    /\ mtx = NoOne
    /\ mtx' = w
    /\ pc' = [pc EXCEPT ![w] = "register"]
    /\ UNCHANGED <<L, ch, waiters, chans, localCh, err, ctx, items, notified, signals, broadcasts, checker, recv>>

\* ch := c.ch; c.waiters++; <-c.mtxCh
DelegWaitRegister(w) ==
    /\ pc[w] = "register"
    /\ localCh' = [localCh EXCEPT ![w] = ch]
    /\ waiters' = waiters + 1
    /\ mtx # NoOne
    /\ mtx' = NoOne
    /\ pc' = [pc EXCEPT ![w] = "unlockL"]
    /\ UNCHANGED <<L, ch, chans, err, ctx, items, notified, signals, broadcasts, checker, recv>>

\* first select: case _, signalled = <-ch on a closed channel (signalled = false)
DelegWaitClosed(w) ==
    /\ pc[w] = "select"
    /\ chans[localCh[w]].closed
    /\ err' = [err EXCEPT ![w] = "nil"]
    /\ localCh' = [localCh EXCEPT ![w] = Nil]
    /\ pc' = [pc EXCEPT ![w] = "second"]
    /\ UNCHANGED <<L, mtx, ch, waiters, chans, ctx, items, notified, signals, broadcasts, checker, recv>>

\* first select: case <-ctx.Done()
DelegWaitDone(w) ==
    /\ pc[w] = "select"
    /\ ctx[w] = "cancelled"
    /\ err' = [err EXCEPT ![w] = "ctx"]
    /\ localCh' = [localCh EXCEPT ![w] = Nil]
    /\ pc' = [pc EXCEPT ![w] = "second"]
    /\ UNCHANGED <<L, mtx, ch, waiters, chans, ctx, items, notified, signals, broadcasts, checker, recv>>

\* second select (!signalled): case c.mtxCh <- struct{}{}
DelegWaitRelock(w) ==
    /\ pc[w] = "second"
    /\ mtx = NoOne
    /\ mtx' = w
    /\ pc' = [pc EXCEPT ![w] = "lower"]
    /\ UNCHANGED <<L, ch, waiters, chans, localCh, err, ctx, items, notified, signals, broadcasts, checker, recv>>

\* !loweringDelegated: c.waiters--; <-c.mtxCh
DelegWaitLower(w) ==
    /\ pc[w] = "lower"
    /\ waiters' = waiters - 1
    /\ mtx # NoOne
    /\ mtx' = NoOne
    /\ pc' = [pc EXCEPT ![w] = "lockL"]
    /\ UNCHANGED <<L, ch, chans, localCh, err, ctx, items, notified, signals, broadcasts, checker, recv>>

\* a goroutine calls Signal
DelegSignalCall(s) ==
    /\ pc[s] = "idle"
    /\ signals + broadcasts < MaxOps
    /\ signals' = signals + 1
    /\ pc' = [pc EXCEPT ![s] = "sigcall"]
    /\ UNCHANGED <<L, mtx, ch, waiters, chans, localCh, err, ctx, items, notified, broadcasts, checker, recv>>

\* c.mtxCh <- struct{}{}
DelegSignalLock(s) ==
    /\ pc[s] = "sigcall"
    /\ mtx = NoOne
    /\ mtx' = s
    /\ pc' = [pc EXCEPT ![s] = "sigloop"]
    /\ UNCHANGED <<L, ch, waiters, chans, localCh, err, ctx, items, notified, signals, broadcasts, checker, recv>>

\* MUTANT: Signal unlocks after delivering, as it does when nobody waits
DelegSignalSend_Unlocks(s, w) ==
    /\ pc[s] = "sigloop"
    /\ waiters > 0
    /\ ~chans[ch].closed
    /\ pc[w] = "select"
    /\ localCh[w] = ch
    /\ err' = [err EXCEPT ![w] = "nil"]
    /\ localCh' = [localCh EXCEPT ![w] = Nil]
    /\ mtx' = NoOne
    /\ pc' = [pc EXCEPT ![s] = "idle", ![w] = "lower"]
    /\ UNCHANGED <<L, ch, waiters, chans, ctx, items, notified, signals, broadcasts, checker, recv>>

\* the loop's select: case c.ch <- struct{}{} meets the receive of w, which
\* is parked in its first select on that channel (signalled = true); Signal
\* returns with its token left in mtxCh, which is now w's to take out
DelegSignalSend(s, w) ==
    /\ pc[s] = "sigloop"
    /\ waiters > 0
    /\ ~chans[ch].closed
    /\ pc[w] = "select"
    /\ localCh[w] = ch
    /\ err' = [err EXCEPT ![w] = "nil"]
    /\ localCh' = [localCh EXCEPT ![w] = Nil]
    /\ mtx' = IF mtx = NoOne THEN NoOne ELSE w
    /\ pc' = [pc EXCEPT ![s] = "idle", ![w] = "lower"]
    /\ UNCHANGED <<L, ch, waiters, chans, ctx, items, notified, signals, broadcasts, checker, recv>>

\* MUTANT: Signal takes the delegation and forgets the decrement
DelegSignalLower_NoDecrement(s, w) ==
    /\ pc[s] = "sigloop"
    /\ waiters > 0
    /\ pc[w] = "second"
    /\ pc' = [pc EXCEPT ![w] = "lockL"]
    /\ UNCHANGED <<L, mtx, ch, waiters, chans, localCh, err, ctx, items, notified, signals, broadcasts, checker, recv>>

\* the loop's select: case <-c.delegateWaiterLowering meets the send of w in
\* its second select (loweringDelegated = true); c.waiters--, and loop
DelegSignalLower(s, w) ==
    /\ pc[s] = "sigloop"
    /\ waiters > 0
    /\ pc[w] = "second"
    /\ waiters' = waiters - 1
    /\ pc' = [pc EXCEPT ![w] = "lockL"]
    /\ UNCHANGED <<L, mtx, ch, chans, localCh, err, ctx, items, notified, signals, broadcasts, checker, recv>>

\* the loop ends (waiters = 0): <-c.mtxCh; a send on a closed c.ch would panic
DelegSignalUnlock(s) ==
    /\ pc[s] = "sigloop"
    /\ IF waiters > 0
         THEN /\ chans[ch].closed
              /\ pc' = Panic
              /\ UNCHANGED mtx
         ELSE /\ mtx # NoOne
              /\ mtx' = NoOne
              /\ pc' = [pc EXCEPT ![s] = "idle"]
    /\ UNCHANGED <<L, ch, waiters, chans, localCh, err, ctx, items, notified, signals, broadcasts, checker, recv>>

\* a goroutine calls Broadcast
DelegBroadcastCall(b) ==
    /\ pc[b] = "idle"
    /\ signals + broadcasts < MaxOps
    /\ broadcasts' = broadcasts + 1
    /\ pc' = [pc EXCEPT ![b] = "bccall"]
    /\ UNCHANGED <<L, mtx, ch, waiters, chans, localCh, err, ctx, items, notified, signals, checker, recv>>

\* c.mtxCh <- struct{}{}
DelegBroadcastLock(b) ==
    /\ pc[b] = "bccall"
    /\ mtx = NoOne
    /\ mtx' = b
    /\ pc' = [pc EXCEPT ![b] = "broadcast"]
    /\ UNCHANGED <<L, ch, waiters, chans, localCh, err, ctx, items, notified, signals, broadcasts, checker, recv>>

\* if waiters > 0, close c.ch (closing a closed channel panics) and install
\* a fresh one; <-c.mtxCh
DelegBroadcastBody(b) ==
    /\ pc[b] = "broadcast"
    /\ IF waiters > 0 /\ chans[ch].closed
         THEN /\ pc' = Panic
              /\ UNCHANGED <<chans, ch, mtx>>
         ELSE /\ IF waiters > 0
                   THEN /\ chans' = Append([chans EXCEPT ![ch].closed = TRUE], NewChan)
                        /\ ch' = Len(chans) + 1
                   ELSE UNCHANGED <<chans, ch>>
              /\ mtx # NoOne
              /\ mtx' = NoOne
              /\ pc' = [pc EXCEPT ![b] = "idle"]
    /\ UNCHANGED <<L, waiters, localCh, err, ctx, items, notified, signals, broadcasts, checker, recv>>

DelegNext ==
    \/ \E w \in Waiters : CallWait(w)
    \/ \E w \in Waiters : DelegWaitLock(w)
    \/ \E w \in Waiters : DelegWaitRegister(w)
    \/ \E w \in Waiters : WaitUnlockL(w)
    \/ \E w \in Waiters : DelegWaitClosed(w)
    \/ \E w \in Waiters : DelegWaitDone(w)
    \/ \E w \in Waiters : DelegWaitRelock(w)
    \/ \E w \in Waiters : DelegWaitLower(w)
    \/ \E w \in Waiters : WaitLockL(w)
    \/ \E w \in Waiters : AfterWait(w)
    \/ \E w \in Waiters : Cancel(w)
    \/ DelegSignalCall(Waker)
    \/ DelegSignalLock(Waker)
    \/ \E w \in Waiters : DelegSignalSend(Waker, w)
    \/ \E w \in Waiters : DelegSignalLower(Waker, w)
    \/ DelegSignalUnlock(Waker)
    \/ DelegBroadcastCall(Waker)
    \/ DelegBroadcastLock(Waker)
    \/ DelegBroadcastBody(Waker)

DelegSpec == DelegInit /\ [][DelegNext]_vars

\* a step of a call that has started, or a caller releasing c.L after Wait
DelegProgress ==
    \/ \E w \in Waiters :
          \/ DelegWaitLock(w) \/ DelegWaitRegister(w) \/ WaitUnlockL(w)
          \/ DelegWaitClosed(w) \/ DelegWaitDone(w) \/ DelegWaitRelock(w)
          \/ DelegWaitLower(w) \/ WaitLockL(w) \/ AfterWait(w)
          \/ DelegSignalSend(Waker, w) \/ DelegSignalLower(Waker, w)
    \/ DelegSignalLock(Waker) \/ DelegSignalUnlock(Waker)
    \/ DelegBroadcastLock(Waker) \/ DelegBroadcastBody(Waker)

\* the scheduler does not stop while a started call can take a step
DelegFairSpec == DelegSpec /\ WF_vars(DelegProgress)

(***************************************************************************)
(* Properties                                                              *)
(***************************************************************************)

\* w has left the select of its call
PastSelect(w) == pc[w] \in {"relock", "lower", "lockL", "returned", "done"}

\* Signal calls whose critical section is over
SignalsDone == IF pc[Waker] = "signal" THEN signals - 1 ELSE signals

\* tokens waiting in the current channel
Pending == IF ch = Nil THEN 0 ELSE chans[ch].buf

\* the current channel, if made, is open and empty
Quiet == ch = Nil \/ (~chans[ch].closed /\ chans[ch].buf = 0)

\* every waiter but w never calls
OthersIdle(w) == \A v \in Waiters \ {w} : pc[v] = "idle"

\* C1: no missed broadcast.  Whenever Broadcast holds the internal mutex,
\* every call that is registered at that moment (whether still holding L,
\* parked in the select, or already woken) and whose context cannot be
\* cancelled eventually returns nil.
C1_NoMissedBroadcast ==
    \A w \in Waiters :
        (pc[Waker] = "broadcast" /\ Registered(w) /\ ctx[w] = "background")
            ~> (pc[w] = "returned" /\ err[w] = "nil")

\* a Wait that could only have been woken by a Broadcast has returned nil
C1_Witness ==
    \E w \in Waiters :
        /\ pc[w] = "returned" /\ err[w] = "nil" /\ ctx[w] = "background"
        /\ broadcasts > 0 /\ signals = 0

\* C2: Signal delivers to exactly one waiter.  With no Broadcast and no
\* cancellation, the calls that have left the select plus the tokens still
\* pending never outnumber the completed Signal calls (no Signal releases
\* two waiters, the others stay parked); and once a Signal has run while a
\* waiter was registered, its token is pending or has released a waiter for
\* as long as another registered waiter is still parked.
C2_SignalWakesOne ==
    (broadcasts = 0 /\ \A w \in Waiters : ctx[w] # "cancelled") =>
        /\ Cardinality({w \in Waiters : PastSelect(w)}) + Pending <= SignalsDone
        /\ (pc[Waker] = "idle" /\ \E w \in Waiters : Blocked(w) /\ notified[w])
              => Cardinality({w \in Waiters : PastSelect(w)}) + Pending >= 1

\* two waiters were parked, one Signal ran: one has left, the other is parked
C2_Witness ==
    /\ broadcasts = 0 /\ signals = 1 /\ pc[Waker] = "idle"
    /\ \A w \in Waiters : ctx[w] # "cancelled"
    /\ \E w, v \in Waiters :
          /\ pc[w] = "returned" /\ err[w] = "nil"
          /\ pc[v] = "select" /\ notified[v] /\ ~CanRecv(localCh[v])

\* C3: the standard predicate loop needs no further synchronisation: the
\* program never comes to rest (no goroutine can take a step) with a
\* consumer parked in Wait while the item counter is positive.
C3_PredicateLoop ==
    (~ENABLED LoopNext) => ~(items > 0 /\ \E w \in Waiters : pc[w] = "select")

\* C4: lock re-acquisition.  A call holds L from entry until it has
\* registered, does not hold it between its Unlock and its Lock, and holds
\* it again when it returns, whatever woke it.
C4_LockReacquired ==
    \A w \in Waiters :
        /\ pc[w] \in {"call", "register", "unlockL", "returned"} => L = w
        /\ pc[w] \in {"select", "relock", "lower", "lockL"} => L # w

\* a cancelled call has returned holding L
C4_Witness ==
    \E w \in Waiters : pc[w] = "returned" /\ err[w] = "ctx" /\ L = w

\* C5: WaitContext returns a non-nil error iff its context was cancelled.
C5_ErrIffCancelled ==
    \A w \in Waiters :
        pc[w] = "returned" => (err[w] = "ctx" <=> ctx[w] = "cancelled")

\* C6: Wait cannot return unless awoken: a call whose context is not
\* cancelled leaves its select only if a Signal or Broadcast locked the
\* internal mutex after the call registered.
C6_WokenOnlyIfNotified ==
    [][\A w \in Waiters :
          (pc[w] = "select" /\ pc'[w] = "relock" /\ ctx[w] # "cancelled")
              => notified[w]]_vars

\* C7: no-op when empty.  A Signal or Broadcast that finds waiters = 0 can
\* always finish its critical section, which changes neither the channel's
\* identity, nor any channel's content or status, nor the waiter count, and
\* does not panic; the channel it leaves is open and empty (or not yet
\* made), so the next waiter to register has nothing to receive.
C7_NoOpWhenEmpty ==
    /\ [][(pc[Waker] \in {"signal", "broadcast"} /\ waiters = 0 /\ pc'[Waker] # pc[Waker])
            => (UNCHANGED <<ch, chans, waiters>> /\ pc'[Waker] = "idle")]_vars
    /\ [](pc[Waker] \in {"signal", "broadcast"} /\ waiters = 0
            => Quiet /\ ENABLED (SignalBody(Waker) \/ BroadcastBody(Waker)))

\* a Signal and a Broadcast have both run on a Cond nobody ever waited on
C7_Witness ==
    /\ pc[Waker] = "idle" /\ signals > 0 /\ broadcasts > 0
    /\ ch = Nil /\ waiters = 0

\* C8: cancellation of one waiter never takes a token from another.  While
\* a waiter whose context is not cancelled is registered on a channel, a
\* token leaves that channel only through the blocking receive of some
\* waiter, which returns nil for it: never through a drain.
C8_CancelKeepsToken ==
    [][\A c \in 1..Len(chans) :
          (/\ chans'[c].buf < chans[c].buf
           /\ \E v \in Waiters : Blocked(v) /\ localCh[v] = c /\ ctx[v] # "cancelled")
              => \E w \in Waiters :
                    /\ pc[w] = "select" /\ localCh[w] = c
                    /\ pc'[w] = "relock" /\ err'[w] = "nil"]_vars

\* a cancelled waiter has lowered waiters while a token was pending for a
\* waiter that is still parked
C8_Witness ==
    \E w, v \in Waiters :
        /\ pc[w] = "lockL" /\ err[w] = "ctx"
        /\ pc[v] = "select" /\ ctx[v] # "cancelled"
        /\ localCh[v] = ch /\ chans[ch].buf = 1

\* C9: a cancelled WaitContext terminates.  A call in progress whose
\* context is cancelled eventually returns; if no Signal or Broadcast was
\* ever called it returns the context's error, holding L; and when no call
\* is in progress the waiter count is 0.
C9_CancelledTerminates ==
    /\ \A w \in Waiters :
          (ctx[w] = "cancelled" /\ pc[w] \notin {"idle", "done"}) ~> (pc[w] = "returned")
    /\ [](\A w \in Waiters :
            (pc[w] = "returned" /\ ctx[w] = "cancelled" /\ signals + broadcasts = 0)
                => (err[w] = "ctx" /\ L = w))
    /\ []((\A p \in Procs : pc[p] \in {"idle", "done"}) => waiters = 0)

\* a call entered with a cancelled context has returned the context's
\* error, no Signal or Broadcast was ever called, and waiters is back to 0
C9_Witness ==
    /\ signals + broadcasts = 0
    /\ \A p \in Procs : pc[p] \in {"idle", "done", "returned"}
    /\ \E w \in Waiters : pc[w] = "returned" /\ ctx[w] = "cancelled" /\ err[w] = "ctx"
    /\ waiters = 0

\* C10: no wakeup is lost between registration and blocking.  If w is the
\* only waiter and Signal holds the internal mutex while w is registered but
\* has not yet received (it may still hold L), then w eventually returns nil
\* holding L.
C10_NoLostWakeup ==
    \A w \in Waiters :
        [](OthersIdle(w)) =>
            ((pc[Waker] = "signal" /\ Blocked(w) /\ ctx[w] = "background")
                ~> (pc[w] = "returned" /\ err[w] = "nil" /\ L = w))

\* the only waiter has returned nil, holding L, after the one Signal call
C10_Witness ==
    \E w \in Waiters :
        /\ OthersIdle(w) /\ ctx[w] = "background"
        /\ pc[w] = "returned" /\ err[w] = "nil" /\ L = w
        /\ signals = 1 /\ broadcasts = 0 /\ pc[Waker] = "idle"

\* C11: Signal and Broadcast never block.  Whoever holds the internal mutex
\* is inside a critical section (never parked in the select, never waiting
\* for L) and can take its next step at once, whatever the other goroutines
\* are doing; and the one step a Signal or Broadcast takes after locking
\* ends the call with the mutex released.
C11_NeverBlocks ==
    /\ [](\A p \in Procs : mtx = p => pc[p] \in {"register", "lower", "signal", "broadcast"})
    /\ [](\A w \in Waiters :
            /\ pc[w] = "register" => mtx = w /\ ENABLED WaitRegister(w)
            /\ pc[w] = "lower" => mtx = w /\ ENABLED WaitLower(w))
    /\ [](pc[Waker] = "signal" => mtx = Waker /\ ENABLED SignalBody(Waker))
    /\ [](pc[Waker] = "broadcast" => mtx = Waker /\ ENABLED BroadcastBody(Waker))
    /\ [][(pc[Waker] \in {"signal", "broadcast"} /\ pc'[Waker] # pc[Waker])
            => (pc'[Waker] = "idle" /\ mtx' = NoOne)]_vars

\* Signal holds the mutex while a token is already pending, one waiter is
\* registered but still holds L and another waits to re-acquire L
C11_Witness ==
    /\ pc[Waker] = "signal" /\ Pending = 1
    /\ \E w, v \in Waiters : pc[w] = "lockL" /\ pc[v] = "unlockL" /\ L = v

\* C12: copy detection.  The guard of the original Cond is 0 until the first
\* operation on it and its own address from then on; a guard that is set
\* never changes; an operation gets past the guard only on a Cond whose
\* guard holds that Cond's own address, so on a copy made after the
\* original's first use every operation ends in the panic; and only an
\* operation on such a copy panics: none on the original, even when its
\* first operations race.
C12_CopyDetection ==
    /\ [](checker[Orig] \in {0, Orig})
    /\ [](checker[Orig] = 0 => \A p \in Procs : recv[p] = Orig => pc[p] = "cas")
    /\ [][\A o \in Conds : checker[o] # 0 => checker'[o] = checker[o]]_vars
    /\ [](\A p \in Procs : pc[p] = "using" => checker[recv[p]] = recv[p])
    /\ [][\A p \in Procs :
            (recv'[p] = Dup /\ checker[Dup] = Orig /\ pc'[p] # pc[p])
                => pc'[p] \in {"cas", "reload", "panic"}]_vars
    /\ [](\A p \in Procs : pc[p] = "panic" => (recv[p] = Dup /\ checker[Dup] = Orig))

\* two first operations on the original raced (one set the guard, the other
\* lost the compare-and-swap), the Cond was then copied, and an operation on
\* the copy has panicked
C12_Witness ==
    \E p, q, r \in Procs :
        /\ pc[p] = "panic" /\ recv[p] = Dup /\ checker[Dup] = Orig
        /\ pc[q] = "using" /\ recv[q] = Orig
        /\ pc[r] = "reload" /\ recv[r] = Orig

\* C13: waiter bookkeeping.  waiters is never negative and always equals
\* the number of calls that have registered and not yet run their
\* decrement; it changes only by the +1 of a registering call and the -1 of
\* a leaving call, and both of them always change it, however the call was
\* woken (a call passes each of the two steps once).
C13_WaiterCount ==
    /\ [](waiters >= 0 /\ waiters = Cardinality({w \in Waiters : Registered(w)}))
    /\ [][\A w \in Waiters :
            /\ (pc[w] = "register" /\ pc'[w] # pc[w]) => waiters' = waiters + 1
            /\ (pc[w] = "lower" /\ pc'[w] # pc[w]) => waiters' = waiters - 1]_vars
    /\ [][waiters' # waiters =>
            \E w \in Waiters : pc[w] \in {"register", "lower"} /\ pc'[w] # pc[w]]_vars

\* one call left through cancellation and one through a wake-up, and the
\* count is back to 0
C13_Witness ==
    /\ waiters = 0 /\ signals + broadcasts > 0
    /\ \E w, v \in Waiters :
          /\ pc[w] = "returned" /\ err[w] = "ctx"
          /\ pc[v] = "lockL" /\ err[v] = "nil"

\* C14: no stale token.  Whenever the internal mutex is free and waiters is
\* 0, the current channel is not yet made, or is open and empty: the step
\* of the last waiter to leave and the step of a Broadcast that replaced
\* the channel both end with such a channel.
C14_NoStaleToken ==
    /\ []((mtx = NoOne /\ waiters = 0) => Quiet)
    /\ [][(\E w \in Waiters : pc[w] = "lower" /\ pc'[w] # pc[w] /\ waiters = 1)
            => (Pending' = 0 /\ ch' = ch)]_vars
    /\ [][(pc[Waker] = "broadcast" /\ pc'[Waker] # pc[Waker] /\ waiters > 0)
            => (ch' # ch /\ chans'[ch'] = NewChan /\ chans'[ch].closed)]_vars

\* the last waiter, woken by its context, is about to leave while the
\* token of a Signal is still in the channel
C14_Witness ==
    \E w \in Waiters :
        /\ pc[w] = "lower" /\ err[w] = "ctx" /\ waiters = 1
        /\ Pending = 1 /\ ENABLED WaitLower(w)

C16_NoChannelPanic ==
    /\ \A p \in Procs : pc[p] # "panic"
    /\ waiters > 0 => ch # Nil
    /\ ch # Nil => ~chans[ch].closed
    /\ (pc[Waker] \in {"signal", "broadcast"} /\ waiters > 0) => (ch # Nil /\ ~chans[ch].closed)

\* a Broadcast closed and replaced the first channel, and a later Signal
\* sent on the second one
C16_Witness ==
    /\ pc[Waker] = "idle" /\ broadcasts = 1 /\ signals = 1
    /\ ch = 2 /\ chans[1].closed /\ chans[2].buf = 1

\* delegating variant: w is counted in waiters
DelegRegistered(w) == pc[w] \in {"unlockL", "select", "second", "lower"}

\* delegating variant: p is between a lock of mtxCh and the unlock that
\* belongs to it (for a signalled waiter the lock is Signal's)
DelegInCS(p) ==
    IF p = Waker THEN pc[p] \in {"sigloop", "broadcast"}
                 ELSE pc[p] \in {"register", "lower"}

\* delegating variant: w is inside WaitContext
DelegInCall(w) == pc[w] \in {"call", "register", "unlockL", "select", "second", "lower", "lockL"}

\* C17: lock hand-over in the delegating variant.  The token in mtxCh always
\* belongs to the one goroutine that is inside a critical section, and
\* nobody is inside one when mtxCh is empty (so every unlock finds the token
\* of its own acquisition); a Signal that returns leaving the token behind
\* has delivered to exactly one waiter, which is then the one inside the
\* critical section; a waiter that was not signalled either locks mtxCh
\* itself or has a Signal that holds the lock lower waiters for it; waiters
\* is never negative, counts the calls that registered and were not yet
\* lowered, and is changed only by the goroutine that holds the lock.
C17_LockHandover ==
    /\ [](\A p \in Procs : pc[p] # "panic" /\ (mtx = p <=> DelegInCS(p)))
    /\ [](waiters >= 0 /\ waiters = Cardinality({w \in Waiters : DelegRegistered(w)}))
    /\ [][(pc[Waker] = "sigloop" /\ pc'[Waker] = "idle" /\ mtx' # NoOne)
            => \E w \in Waiters :
                  /\ pc[w] = "select" /\ pc'[w] = "lower" /\ err'[w] = "nil"
                  /\ mtx' = w /\ waiters' = waiters
                  /\ \A v \in Waiters \ {w} : pc'[v] = pc[v]]_vars
    /\ [][\A w \in Waiters :
            (pc[w] = "second" /\ pc'[w] # pc[w]) =>
                \/ pc'[w] = "lower" /\ mtx = NoOne /\ mtx' = w /\ waiters' = waiters
                \/ /\ pc'[w] = "lockL" /\ waiters' = waiters - 1
                   /\ mtx = Waker /\ mtx' = Waker /\ pc'[Waker] = "sigloop"]_vars
    /\ [][waiters' # waiters =>
            /\ mtx # NoOne
            /\ \/ mtx # Waker /\ pc'[mtx] # pc[mtx]
               \/ mtx = Waker /\ \E w \in Waiters : pc[w] = "second" /\ pc'[w] = "lockL"]_vars
    /\ [][(mtx # NoOne /\ mtx' = NoOne) => pc'[mtx] # pc[mtx]]_vars

\* the one Signal has delivered and returned, the waiter that received holds
\* the lock and has not lowered waiters yet, and a cancelled waiter is past
\* its own lowering
C17_Witness ==
    /\ signals = 1 /\ broadcasts = 0 /\ pc[Waker] = "idle"
    /\ \E w, v \in Waiters :
          /\ pc[w] = "lower" /\ mtx = w /\ err[w] = "nil"
          /\ pc[v] = "lockL" /\ err[v] = "ctx"
    /\ waiters = 1

\* delegating variant: a call that has to complete is in progress: a Signal,
\* a Broadcast, or a WaitContext whose context is cancelled or that has left
\* (or can leave) its first select without a token
DelegPending ==
    \/ pc[Waker] # "idle"
    \/ \E w \in Waiters :
          /\ DelegInCall(w)
          /\ \/ ctx[w] = "cancelled"
             \/ pc[w] \in {"second", "lower", "lockL"}
             \/ pc[w] = "select" /\ chans[localCh[w]].closed

\* C18: the delegating variant is deadlock-free.  Under fair scheduling
\* every Signal and every Broadcast that was called returns, and so does
\* every WaitContext that is cancelled or woken by a Broadcast: the callers
\* make finitely many calls, and from some moment on none of these calls is
\* in progress any more.
C18_DelegDeadlockFree == <>[](~DelegPending)

\* Signal holds the lock and has nobody to send to: the only waiter it
\* counts has left the receive through its context and not yet lowered
C18_Witness ==
    /\ pc[Waker] = "sigloop" /\ waiters = 1
    /\ \E w \in Waiters :
          /\ pc[w] = "second" /\ err[w] = "ctx"
          /\ \A v \in Waiters \ {w} : ~DelegRegistered(v)

TypeOK ==
    /\ L \in {NoOne} \cup Procs
    /\ mtx \in {NoOne} \cup Procs
    /\ ch \in 0..Len(chans)
    /\ waiters \in 0..NumWaiters
    /\ \A c \in 1..Len(chans) : chans[c].buf \in 0..ChanCap /\ chans[c].closed \in BOOLEAN
    /\ Conds \subseteq {Orig, Dup}
    /\ \A o \in Conds : checker[o] \in {0, Orig, Dup}
    /\ \A p \in Procs : recv[p] \in {Nil} \cup Conds

====
